---- MODULE Spec2Model ----
(***************************************************************************)
(* Model of ETF.py, the "ETF Investment Growth Analyzer" script.           *)
(*                                                                         *)
(* One "Analyze Growth" click is one pass through lines 54-136.  The pass  *)
(* is cut at the three calls to the market data provider (lines 61, 88,    *)
(* 98): what the provider answers is an input of the run.                  *)
(*                                                                         *)
(* Numbers.  The script computes in IEEE doubles.  The model computes in   *)
(* exact rationals extended with NaN, +Inf and -Inf: a number is a record  *)
(* [n, d] with d > 0 for the rational n/d in lowest terms, and d = 0 for   *)
(* NaN (n = 0), +Inf (n = 1) and -Inf (n = -1).  Square roots are kept in  *)
(* closed form, c * sqrt(r), and the CAGR power as (base, exponent).       *)
(* Rounding of doubles is not modelled.                                    *)
(*                                                                         *)
(* Dates are day numbers counted from 1970-01-01; instants are hours       *)
(* counted from 1970-01-01 00:00 UTC.                                      *)
(***************************************************************************)
EXTENDS Integers, Sequences, FiniteSets, TLC

----------------------------------------------------------------------------
(* Extended rational arithmetic (numpy float64 semantics without rounding) *)

Abs(x) == IF x < 0 THEN -x ELSE x

RECURSIVE GCD(_, _)
GCD(a, b) == IF b = 0 THEN a ELSE GCD(b, a % b)

NaN == [n |-> 0, d |-> 0]
Inf == [n |-> 1, d |-> 0]
NegInf == [n |-> -1, d |-> 0]

\* Python's None, also the value of a name that is not bound yet.
None == [none |-> TRUE]

Norm(n, d) ==
    LET s == IF d < 0 THEN -1 ELSE 1
        g == GCD(Abs(n), Abs(d))
    IN  [n |-> (s * n) \div g, d |-> (s * d) \div g]

Rat(k) == [n |-> k, d |-> 1]

IsNaN(x) == x.d = 0 /\ x.n = 0
IsInf(x) == x.d = 0 /\ x.n # 0
IsFinite(x) == x.d # 0
IsZero(x) == x.d # 0 /\ x.n = 0
Sign(x) == IF x.n > 0 THEN 1 ELSE IF x.n < 0 THEN -1 ELSE 0
Signed(s) == IF s > 0 THEN Inf ELSE IF s < 0 THEN NegInf ELSE NaN

FAdd(a, b) ==
    IF IsNaN(a) \/ IsNaN(b) THEN NaN
    ELSE IF IsInf(a) /\ IsInf(b) THEN (IF a = b THEN a ELSE NaN)
    ELSE IF IsInf(a) THEN a
    ELSE IF IsInf(b) THEN b
    ELSE LET g == GCD(a.d, b.d)
         IN  Norm(a.n * (b.d \div g) + b.n * (a.d \div g), (a.d \div g) * b.d)

FNeg(a) == [n |-> -a.n, d |-> a.d]

FSub(a, b) == FAdd(a, FNeg(b))

FMul(a, b) ==
    IF IsNaN(a) \/ IsNaN(b) THEN NaN
    ELSE IF IsInf(a) \/ IsInf(b) THEN Signed(Sign(a) * Sign(b))
    ELSE LET g == GCD(Abs(a.n), b.d)
             h == GCD(Abs(b.n), a.d)
         IN  Norm((a.n \div g) * (b.n \div h), (a.d \div h) * (b.d \div g))

\* numpy division: x/0 is +-Inf or NaN (a RuntimeWarning, no exception).
FDiv(a, b) ==
    IF IsNaN(a) \/ IsNaN(b) THEN NaN
    ELSE IF IsInf(b) THEN (IF IsInf(a) THEN NaN ELSE Rat(0))
    ELSE IF IsInf(a) THEN Signed(Sign(a) * (IF b.n < 0 THEN -1 ELSE 1))
    ELSE IF b.n = 0 THEN Signed(Sign(a))
    ELSE FMul(a, Norm(b.d, b.n))

\* A closed-form square root: the number c * sqrt(r), r finite and >= 0.
\* A non-finite value is carried in c, with r = 1.
Surd(c, r) == [c |-> c, r |-> r]

FSqrt(x) == IF IsFinite(x) /\ x.n >= 0 THEN Surd(Rat(1), x) ELSE Surd(x, Rat(1))

SurdIsZero(s) == IsZero(s.c) \/ IsZero(s.r)
SurdIsFinite(s) == IsFinite(s.c)

\* s * (k ** 0.5)
SurdTimesSqrt(s, k) ==
    IF IsFinite(s.c) THEN Surd(s.c, FMul(s.r, Rat(k))) ELSE s

\* x / s for a number x and a surd s:  x / (c sqrt r) = (x / (c r)) sqrt r
DivBySurd(x, s) ==
    IF SurdIsZero(s) THEN Surd(FDiv(x, Rat(0)), Rat(1))
    ELSE IF ~IsFinite(s.c) THEN Surd(FDiv(x, s.c), Rat(1))
    ELSE LET q == FDiv(x, FMul(s.c, s.r))
         IN  IF IsFinite(q) THEN Surd(q, s.r) ELSE Surd(q, Rat(1))

----------------------------------------------------------------------------
(* Calendar: pd.Timestamp(date), .year and tz_localize('America/New_York') *)

DaysFromCivil(y, m, d) ==
    LET yy  == IF m <= 2 THEN y - 1 ELSE y
        era == yy \div 400
        yoe == yy - era * 400
        mp  == IF m > 2 THEN m - 3 ELSE m + 9
        doy == (153 * mp + 2) \div 5 + d - 1
        doe == yoe * 365 + yoe \div 4 - yoe \div 100 + doy
    IN  era * 146097 + doe - 719468

\* DatetimeIndex.year
YearOf(z) ==
    LET zz  == z + 719468
        era == zz \div 146097
        doe == zz - era * 146097
        yoe == (doe - doe \div 1460 + doe \div 36524 - doe \div 146096) \div 365
        doy == doe - (365 * yoe + yoe \div 4 - yoe \div 100)
        mp  == (5 * doy + 2) \div 153
        m   == IF mp < 10 THEN mp + 3 ELSE mp - 9
    IN  yoe + era * 400 + (IF m <= 2 THEN 1 ELSE 0)

\* 0 = Sunday; 1970-01-01 was a Thursday.
Weekday(z) == (z + 4) % 7

FirstSundayOnOrAfter(z) == z + ((7 - Weekday(z)) % 7)

\* US daylight saving time since 2007: from 02:00 on the second Sunday of
\* March until 02:00 on the first Sunday of November.
DstStartDay(y) == FirstSundayOnOrAfter(DaysFromCivil(y, 3, 1)) + 7
DstEndDay(y) == FirstSundayOnOrAfter(DaysFromCivil(y, 11, 1))

\* Hours that America/New_York is behind UTC at local midnight of day z.
NewYorkOffset(z) ==
    LET y == YearOf(z)
    IN  IF z > DstStartDay(y) /\ z <= DstEndDay(y) THEN 4 ELSE 5

\* pd.Timestamp(d).tz_localize('America/New_York'): the instant of local
\* midnight of day z, in hours since the epoch.
Localize(z) == 24 * z + NewYorkOffset(z)

\* A time-zone-aware pd.Timestamp of midnight in New York: the calendar date
\* it shows and the instant it is.
Timestamp(z) == [date |-> z, utc |-> Localize(z)]

\* The calendar date a time-zone-aware timestamp shows in New York: the day
\* whose local midnight is the last one not after the instant.
NewYorkDate(utc) ==
    LET z == (utc - 4) \div 24
    IN  IF Localize(z) <= utc THEN z ELSE z - 1

\* The calendar date an instant shows in a zone.
LocalDate(zone, utc) == IF zone = "UTC" THEN utc \div 24 ELSE NewYorkDate(utc)

\* Timedelta.days of the difference of two instants.
TimedeltaDays(t1, t0) == (t1 - t0) \div 24

----------------------------------------------------------------------------
(* Bounds of the model                                                     *)

MaxLen == 3
MaxPrice == 2
MaxDivs == 2
MaxAmount == 2

\* The calendar dates the date pickers and the provider's rows are drawn
\* from: the last trading day of 2023, the first of 2024, and the day on
\* which daylight saving time began in 2024 with the day after it.
AnalysisDates ==
    { DaysFromCivil(2023, 12, 29), DaysFromCivil(2024, 1, 2),
      DaysFromCivil(2024, 3, 10),  DaysFromCivil(2024, 3, 11) }

\* Ex-dividend dates of the provider's dividend history.
DividendDates == { DaysFromCivil(2024, 1, 2), DaysFromCivil(2024, 3, 11) }

\* Time zone of the exchange the dividend history is stamped in.
DividendZones == {"America/New_York", "UTC"}

\* The days on which the page is opened: date.today() of lines 40-41, which
\* sets the date pickers to today - 365 days and today.
Todays == { DaysFromCivil(2024, 3, 11), DaysFromCivil(2026, 10, 29) }

Selections == {"SPY", "Enter your own"}
\* What is typed into "Enter ETF Symbol"; already upper case, so that
\* str.upper() leaves it as it is.
SymbolTexts == {"", "ZZZZ"}
Investments == {1000, 2500}

----------------------------------------------------------------------------
(* pandas Series: a sequence of [date, value], ascending by date           *)

RECURSIVE SortedSeq(_)
SortedSeq(S) ==
    IF S = {} THEN <<>>
    ELSE LET m == CHOOSE x \in S : \A y \in S : x <= y
         IN  <<m>> \o SortedSeq(S \ {m})

Dates(s) == {s[i].date : i \in 1..Len(s)}

At(s, z) == LET i == CHOOSE j \in 1..Len(s) : s[j].date = z IN s[i].value

Column(rows, field) ==
    [i \in 1..Len(rows) |-> [date |-> rows[i].date, value |-> rows[i][field]]]

\* Series.pct_change(): NaN in the first place, p[i]/p[i-1] - 1 after it.
PctChange(s) ==
    [i \in 1..Len(s) |->
        [date |-> s[i].date,
         value |-> IF i = 1 THEN NaN
                   ELSE FSub(FDiv(s[i].value, s[i-1].value), Rat(1))]]

NotNaN(e) == ~IsNaN(e.value)

DropNa(s) == SelectSeq(s, NotNaN)

FillNa(s, v) ==
    [i \in 1..Len(s) |->
        [date |-> s[i].date, value |-> IF IsNaN(s[i].value) THEN v ELSE s[i].value]]

AddScalar(s, v) ==
    [i \in 1..Len(s) |-> [date |-> s[i].date, value |-> FAdd(s[i].value, v)]]

MulScalar(s, v) ==
    [i \in 1..Len(s) |-> [date |-> s[i].date, value |-> FMul(s[i].value, v)]]

RECURSIVE Product(_, _)
Product(s, i) == IF i = 0 THEN Rat(1) ELSE FMul(Product(s, i - 1), s[i].value)

CumProd(s) ==
    [i \in 1..Len(s) |-> [date |-> s[i].date, value |-> Product(s, i)]]

\* data[col] = series: the series is aligned to the frame's index, and a
\* date the series has no entry for gets NaN.
AssignColumn(index, s) ==
    [i \in 1..Len(index) |->
        [date |-> index[i],
         value |-> IF index[i] \in Dates(s) THEN At(s, index[i]) ELSE NaN]]

RECURSIVE SumValues(_)
SumValues(s) ==
    IF s = <<>> THEN Rat(0) ELSE FAdd(s[1].value, SumValues(Tail(s)))

\* Series.mean(), skipna: NaN for no values.
Mean(s) ==
    LET v == DropNa(s)
    IN  IF Len(v) = 0 THEN NaN ELSE FDiv(SumValues(v), Rat(Len(v)))

SquaredDeviations(v, m) ==
    [i \in 1..Len(v) |->
        [date |-> v[i].date,
         value |-> FMul(FSub(v[i].value, m), FSub(v[i].value, m))]]

\* Series.var(), skipna, ddof = 1: NaN for fewer than two values.
Var(s) ==
    LET v == DropNa(s)
    IN  IF Len(v) < 2 THEN NaN
        ELSE FDiv(SumValues(SquaredDeviations(v, Mean(v))), Rat(Len(v) - 1))

\* Series.std()
Std(s) == FSqrt(Var(s))

OnDates(s, D) == LET Keep(e) == e.date \in D IN SelectSeq(s, Keep)

\* Series.cov(other): the two series are aligned on their common dates, the
\* pairs with a NaN are dropped, and the sample covariance (ddof = 1) of the
\* rest is returned, NaN for fewer than two pairs.
Cov(a, b) ==
    LET common == Dates(DropNa(a)) \cap Dates(DropNa(b))
        x == OnDates(a, common)
        y == OnDates(b, common)
        mx == Mean(x)
        my == Mean(y)
        prods == [i \in 1..Len(x) |->
                    [date |-> x[i].date,
                     value |-> FMul(FSub(x[i].value, mx), FSub(y[i].value, my))]]
    IN  IF Len(x) < 2 THEN NaN
        ELSE FDiv(SumValues(prods), Rat(Len(x) - 1))

----------------------------------------------------------------------------
(* Display formatting                                                      *)

\* floor(n / d) for d > 0
Floor(n, d) == n \div d

\* x rounded to the nearest integer, ties to even: the digits of a
\* fixed-point format.
RoundHalfEven(x) ==
    LET f == Floor(x.n, x.d)
        twiceRem == 2 * (x.n - f * x.d)
    IN  IF twiceRem < x.d THEN f
        ELSE IF twiceRem > x.d THEN f + 1
        ELSE IF f % 2 = 0 THEN f ELSE f + 1

NotApplicable == [text |-> "N/A"]

\* f"{x:.2f}": the value in hundredths; "nan" and "inf" stay as they are.
FormatFixed2(x) ==
    IF IsFinite(x) THEN [hundredths |-> RoundHalfEven(FMul(x, Rat(100)))]
    ELSE [nonfinite |-> x]

\* f"{x:.2%}": the percentage in hundredths of a percent.
FormatPercent2(x) ==
    IF IsFinite(x) THEN [hundredths |-> RoundHalfEven(FMul(x, Rat(10000)))]
    ELSE [nonfinite |-> x]

----------------------------------------------------------------------------
(* The script's state                                                      *)

VARIABLES
    pc,                  \* "idle", "await_price", "await_market",
                         \* "await_dividends", "done"
    etf_symbol,
    start_date,          \* the picked dates, localized (lines 44-45)
    end_date,
    initial_investment,
    data,                \* the price frame: a sequence of rows
    total_return,
    years,
    cagr,
    daily_volatility,
    annualized_volatility,
    annualized_sharpe_ratio,
    market_data,         \* the benchmark frame
    covariance,
    market_variance,
    beta,
    dividend_history,    \* the dividend history as the provider returned it
    dividends,           \* the script's variable of lines 98-102
    dividend_yield,
    annual_table,
    fetches,             \* the provider calls issued in this run, in order
    output,              \* what st.error / st.write / st.plotly_chart showed
    exception            \* the uncaught exception that ended the run, or None

inputs == <<etf_symbol, start_date, end_date, initial_investment>>
results == <<data, total_return, years, cagr, daily_volatility,
             annualized_volatility, annualized_sharpe_ratio, market_data,
             covariance, market_variance, beta, dividend_history, dividends,
             dividend_yield,
             annual_table>>
vars == <<pc, inputs, results, fetches, output, exception>>

\* 2% a year
risk_free_rate == Norm(2, 100)

Benchmark == "^GSPC"

\* Lines 33-36: the symbol comes from the dropdown, or from the text box.
EtfSymbol(selected_etf, text) ==
    IF selected_etf = "Enter your own" THEN text ELSE selected_etf

\* What yf.download may answer for the window [start, end): rows with
\* strictly increasing dates inside the window and positive prices, or none.
PriceFrames(start, end) ==
    LET window == {z \in AnalysisDates : start.date <= z /\ z < end.date}
    IN  UNION { { [i \in 1..Cardinality(S) |->
                      LET z == SortedSeq(S)[i]
                      IN  [date |-> z, adj_close |-> Rat(f[z])]]
                  : f \in [S -> 1..MaxPrice] }
                : S \in {T \in SUBSET window : Cardinality(T) <= MaxLen} }

\* What yf.Ticker(symbol).dividends may answer: the whole dividend history
\* of the symbol, each event stamped at midnight of its ex-dividend date in
\* the exchange's time zone.  An index entry is a time-zone-aware timestamp:
\* its zone, the calendar date it shows there, and the instant it is.
ZoneOffset(zone, z) == IF zone = "UTC" THEN 0 ELSE NewYorkOffset(z)

DividendHistories ==
    UNION { { [i \in 1..Cardinality(S) |->
                  LET z == SortedSeq(S)[i]
                  IN  [tz |-> zone, date |-> z,
                       utc |-> 24 * z + ZoneOffset(zone, z),
                       value |-> Rat(f[z])]]
              : f \in [S -> 1..MaxAmount], zone \in DividendZones }
            : S \in {T \in SUBSET DividendDates : Cardinality(T) <= MaxDivs} }

Show(kind, value) == [kind |-> kind, value |-> value]

Fetch(what, symbol, start, end) ==
    [what |-> what, symbol |-> symbol, start |-> start, end |-> end]

\* Lines 30-48 on the first run: the widgets hold their defaults, the first
\* symbol of the dropdown, the year that ends today, and 1000.
Init ==
    /\ pc = "idle"
    /\ etf_symbol = "SPY"
    /\ \E today \in Todays :
          /\ start_date = Timestamp(today - 365)
          /\ end_date = Timestamp(today)
    /\ initial_investment = 1000
    /\ data = <<>>
    /\ total_return = None
    /\ years = None
    /\ cagr = None
    /\ daily_volatility = None
    /\ annualized_volatility = None
    /\ annualized_sharpe_ratio = None
    /\ market_data = <<>>
    /\ covariance = None
    /\ market_variance = None
    /\ beta = None
    /\ dividend_history = <<>>
    /\ dividends = <<>>
    /\ dividend_yield = None
    /\ annual_table = <<>>
    /\ fetches = <<>>
    /\ output = <<>>
    /\ exception = None

\* Every run of the script starts afresh: nothing of the previous run is kept.
FreshResults ==
    /\ data' = <<>>
    /\ total_return' = None
    /\ years' = None
    /\ cagr' = None
    /\ daily_volatility' = None
    /\ annualized_volatility' = None
    /\ annualized_sharpe_ratio' = None
    /\ market_data' = <<>>
    /\ covariance' = None
    /\ market_variance' = None
    /\ beta' = None
    /\ dividend_history' = <<>>
    /\ dividends' = <<>>
    /\ dividend_yield' = None
    /\ annual_table' = <<>>
    /\ exception' = None

\* Line 55, on the localized timestamps
DatesInvalidStrict(start, end) == start.utc > end.utc

DatesInvalid(start, end) == start.utc >= end.utc

\* Line 64
NoDataErrorUnnamed(symbol) == Show("error", <<"no data", "">>)

NoDataError(symbol) == Show("error", <<"no data", symbol>>)

\* Lines 54-61: the click, the validation of the inputs, and the request for
\* the prices of the symbol.
Analyze(selected_etf, text, start, end, amount) ==
    /\ etf_symbol' = EtfSymbol(selected_etf, text)
    /\ start_date' = Timestamp(start)
    /\ end_date' = Timestamp(end)
    /\ initial_investment' = amount
    /\ FreshResults
    /\ IF DatesInvalid(start_date', end_date')
       THEN /\ output' = <<Show("error", <<"End date must be after the start date.">>)>>
            /\ fetches' = <<>>
            /\ pc' = "done"
       ELSE IF etf_symbol' = ""
       THEN /\ output' = <<Show("error", <<"Please enter an ETF symbol.">>)>>
            /\ fetches' = <<>>
            /\ pc' = "done"
       ELSE /\ output' = <<>>
            /\ fetches' = <<Fetch("download", etf_symbol', start_date', end_date')>>
            /\ pc' = "await_price"

----------------------------------------------------------------------------
(* Lines 66-85: returns, growth, CAGR, volatility, Sharpe ratio            *)

Index(frame) == [i \in 1..Len(frame) |-> frame[i].date]

\* Line 67: pct_change().dropna() assigned back to the frame; the first row,
\* which the dropped series has no entry for, holds NaN.
DailyReturn(frame) ==
    AssignColumn(Index(frame), DropNa(PctChange(Column(frame, "adj_close"))))

CumulativeReturnFirstDropped(frame) ==
    CumProd(AddScalar(PctChange(Column(frame, "adj_close")), Rat(1)))

\* Line 70
CumulativeReturn(frame) ==
    CumProd(AddScalar(FillNa(PctChange(Column(frame, "adj_close")), Rat(0)), Rat(1)))

\* Line 71
InvestmentValue(amount, cumulative) == MulScalar(cumulative, Rat(amount))

\* Line 74
TotalReturn(cumulative) == FSub(cumulative[Len(cumulative)].value, Rat(1))

\* Line 75: whole days between the two localized midnights, over 365.25.
Years(start, end) == Norm(4 * TimedeltaDays(end.utc, start.utc), 1461)

\* Line 76: (1 + total_return) ** (1 / years) - 1, kept as base and exponent.
\* 1 / years is a division of Python floats: it raises for years = 0.
CagrRaises(y) == IsZero(y)

Cagr(total, y) == [base |-> FAdd(Rat(1), total), exponent |-> FDiv(Rat(1), y)]

\* Line 79
DailyVolatility(daily) == Std(daily)

\* Lines 80, 85
Annualize(s) == SurdTimesSqrt(s, 252)

\* Lines 83-84
DailySharpeRatio(daily, volatility) ==
    DivBySurd(Mean(AddScalar(daily, FNeg(FDiv(risk_free_rate, Rat(252))))),
              volatility)

Frame(frame, amount) ==
    LET daily == DailyReturn(frame)
        cumulative == CumulativeReturn(frame)
        value == InvestmentValue(amount, cumulative)
    IN  [i \in 1..Len(frame) |->
            [date |-> frame[i].date,
             adj_close |-> frame[i].adj_close,
             daily_return |-> daily[i].value,
             cumulative_return |-> cumulative[i].value,
             investment_value |-> value[i].value]]

\* Lines 61-88: the provider's answer to the price request.  An empty answer
\* is reported and ends the run.  Otherwise the frame's columns, the CAGR,
\* the volatility and the Sharpe ratio are computed and the benchmark is
\* requested; the CAGR's division raises when years is 0.
ReceivePrices(frame) ==
    /\ UNCHANGED <<inputs, market_data, covariance, market_variance, beta,
                   dividend_history, dividends, dividend_yield, annual_table>>
    /\ IF frame = <<>>
       THEN /\ output' = <<NoDataError(etf_symbol)>>
            /\ pc' = "done"
            /\ UNCHANGED <<data, total_return, years, cagr, daily_volatility,
                           annualized_volatility, annualized_sharpe_ratio,
                           fetches, exception>>
       ELSE /\ data' = Frame(frame, initial_investment)
            /\ total_return' = TotalReturn(Column(data', "cumulative_return"))
            /\ years' = Years(start_date, end_date)
            /\ IF CagrRaises(years')
               THEN /\ exception' = "ZeroDivisionError"
                    /\ pc' = "done"
                    /\ UNCHANGED <<cagr, daily_volatility, annualized_volatility,
                                   annualized_sharpe_ratio, fetches, output>>
               ELSE /\ cagr' = Cagr(total_return', years')
                    /\ daily_volatility' =
                           DailyVolatility(Column(data', "daily_return"))
                    /\ annualized_volatility' = Annualize(daily_volatility')
                    /\ annualized_sharpe_ratio' =
                           Annualize(DailySharpeRatio(Column(data', "daily_return"),
                                                      daily_volatility'))
                    /\ fetches' = Append(fetches,
                           Fetch("download", Benchmark, start_date, end_date))
                    /\ pc' = "await_market"
                    /\ UNCHANGED <<output, exception>>

----------------------------------------------------------------------------
(* Lines 88-95: beta against the benchmark                                 *)

\* Line 90
MarketReturn(frame) == DropNa(PctChange(Column(frame, "adj_close")))

\* Line 91
Covariance(daily, market_return) == Cov(daily, market_return)

\* Line 92
MarketVariance(market_return) == Var(market_return)

BetaUnguarded(cov, variance) == FDiv(cov, variance)

\* Line 93
Beta(cov, variance) ==
    IF ~IsZero(variance) THEN FDiv(cov, variance) ELSE None

ReceiveMarket(frame) ==
    /\ market_data' = frame
    /\ IF frame # <<>>
       THEN /\ covariance' =
                   Covariance(Column(data, "daily_return"), MarketReturn(frame))
            /\ market_variance' = MarketVariance(MarketReturn(frame))
            /\ beta' = Beta(covariance', market_variance')
       ELSE /\ beta' = None
            /\ UNCHANGED <<covariance, market_variance>>
    /\ fetches' = Append(fetches, Fetch("dividends", etf_symbol, None, None))
    /\ pc' = "await_dividends"
    /\ UNCHANGED <<inputs, data, total_return, years, cagr, daily_volatility,
                   annualized_volatility, annualized_sharpe_ratio,
                   dividend_history, dividends, dividend_yield, annual_table,
                   output, exception>>

----------------------------------------------------------------------------
(* Lines 98-136: dividend yield, annual table, display                     *)

\* Line 101: tz_convert changes the zone the index is shown in, and with it
\* the calendar date each entry shows, not the instants.
TzConvert(s, zone) ==
    [i \in 1..Len(s) |->
        [tz |-> zone, date |-> LocalDate(zone, s[i].utc), utc |-> s[i].utc,
         value |-> s[i].value]]

\* Line 102: the comparison of two time-zone-aware timestamps compares the
\* instants.
InWindow(e, start, end) == e.utc >= start.utc /\ e.utc <= end.utc

DividendsInWindow(s, start, end) ==
    LET Keep(e) == InWindow(e, start, end) IN SelectSeq(s, Keep)

\* Lines 99-105
DividendYield(history, start, end, first_price) ==
    IF history # <<>>
    THEN FDiv(SumValues(DividendsInWindow(TzConvert(history, "America/New_York"),
                                          start, end)),
              first_price)
    ELSE None

FirstOfYear(rows, y) ==
    LET idx == {i \in 1..Len(rows) :
                   YearOf(rows[i].date) = y /\ ~IsNaN(rows[i].investment_value)}
    IN  IF idx = {} THEN NaN
        ELSE rows[CHOOSE i \in idx : \A j \in idx : i <= j].investment_value

\* Lines 108-110: groupby('Year').last() has one row for each year, in
\* ascending order of the year, holding the last value of the group that is
\* not NaN.
LastOfYear(rows, y) ==
    LET idx == {i \in 1..Len(rows) :
                   YearOf(rows[i].date) = y /\ ~IsNaN(rows[i].investment_value)}
    IN  IF idx = {} THEN NaN
        ELSE rows[CHOOSE i \in idx : \A j \in idx : j <= i].investment_value

AnnualTable(rows) ==
    LET ys == SortedSeq({YearOf(rows[i].date) : i \in 1..Len(rows)})
    IN  [k \in 1..Len(ys) |->
            [Year |-> ys[k], InvestmentValue |-> LastOfYear(rows, ys[k])]]

\* Lines 118-119
RenderBeta(b) == IF b # None THEN FormatFixed2(b) ELSE NotApplicable

RenderDividendYield(y) == IF y # None THEN FormatPercent2(y) ELSE NotApplicable

\* Lines 112-136.  The CAGR, the volatility and the Sharpe ratio are passed to
\* the display in closed form; the digits of their formats are not modelled.
Display(amount, symbol, table, c, vol, sharpe, b, y, rows) ==
    << Show("subheader", <<amount, symbol>>),
       Show("table", table),
       Show("cagr", c),
       Show("volatility", vol),
       Show("sharpe", sharpe),
       Show("beta", RenderBeta(b)),
       Show("dividend_yield", RenderDividendYield(y)),
       Show("chart", Column(rows, "investment_value")) >>

\* Lines 98-136: the provider's answer to the dividend request, the dividend
\* yield, the annual table, and the display of the results.
DividendsReply ==
    /\ pc = "await_dividends"
    /\ annual_table' = AnnualTable(data)
    /\ \E history \in DividendHistories :
          /\ dividend_history' = history
          /\ dividends' =
                 IF history # <<>>
                 THEN DividendsInWindow(TzConvert(history, "America/New_York"),
                                        start_date, end_date)
                 ELSE history
          /\ dividend_yield' =
                 DividendYield(history, start_date, end_date, data[1].adj_close)
    /\ output' = Display(initial_investment, etf_symbol, annual_table', cagr,
                         annualized_volatility, annualized_sharpe_ratio, beta,
                         dividend_yield', data)
    /\ pc' = "done"
    /\ UNCHANGED <<inputs, data, total_return, years, cagr, daily_volatility,
                   annualized_volatility, annualized_sharpe_ratio, market_data,
                   covariance, market_variance, beta, fetches, exception>>

----------------------------------------------------------------------------

\* Touching a widget after a run reruns the script with the button not
\* pressed (line 54): the page is drawn without any result.
Rerun ==
    /\ pc = "done"
    /\ pc' = "idle"
    /\ FreshResults
    /\ fetches' = <<>>
    /\ output' = <<>>
    /\ UNCHANGED inputs

AnalyzeGrowth ==
    /\ pc = "idle"
    /\ \E selected_etf \in Selections, text \in SymbolTexts,
          start \in AnalysisDates, end \in AnalysisDates, amount \in Investments :
          Analyze(selected_etf, text, start, end, amount)

PriceReply ==
    /\ pc = "await_price"
    /\ \E frame \in PriceFrames(start_date, end_date) : ReceivePrices(frame)

MarketReply ==
    /\ pc = "await_market"
    /\ \E frame \in PriceFrames(start_date, end_date) : ReceiveMarket(frame)

Next ==
    \/ AnalyzeGrowth
    \/ PriceReply
    \/ MarketReply
    \/ DividendsReply
    \/ Rerun

Spec == Init /\ [][Next]_vars

----------------------------------------------------------------------------
(* Properties                                                              *)

Shown(kind) == \E i \in 1..Len(output) : output[i].kind = kind

Line(kind) == output[CHOOSE i \in 1..Len(output) : output[i].kind = kind].value

ResultKinds ==
    <<"subheader", "table", "cagr", "volatility", "sharpe", "beta",
      "dividend_yield", "chart">>

NoResultShown == \A k \in 1..Len(ResultKinds) : ~Shown(ResultKinds[k])

AllResultsShown ==
    /\ Len(output) = Len(ResultKinds)
    /\ \A k \in 1..Len(ResultKinds) : output[k].kind = ResultKinds[k]

Issued(what, symbol) ==
    \E i \in 1..Len(fetches) : fetches[i].what = what /\ fetches[i].symbol = symbol

\* The price request of the run was answered with no rows.
PriceFetchEmpty == pc = "done" /\ fetches # <<>> /\ data = <<>>

\* C1: when the price fetch of a validated click returns no rows, the run
\* shows the no-data error naming the symbol and nothing else, and it issues
\* neither the benchmark request nor the dividend request.
C1_NoDataAborts ==
    PriceFetchEmpty =>
        /\ output = <<Show("error", <<"no data", etf_symbol>>)>>
        /\ NoResultShown
        /\ Len(fetches) = 1
        /\ fetches[1].what = "download" /\ fetches[1].symbol = etf_symbol
        /\ ~Issued("download", Benchmark)
        /\ ~Issued("dividends", etf_symbol)
        /\ exception = None

C1_Witness ==
    /\ PriceFetchEmpty
    /\ etf_symbol = "ZZZZ"
    /\ output = <<Show("error", <<"no data", "ZZZZ">>)>>

InputsInvalid == end_date.date <= start_date.date \/ etf_symbol = ""

\* C2: a click whose end date is not after its start date, or whose symbol
\* is empty, ends at once with a validation error: no request is issued and
\* no table, metric or chart is shown.
C2_InvalidInputsNotAnalyzed ==
    (pc # "idle" /\ InputsInvalid) =>
        /\ pc = "done"
        /\ fetches = <<>>
        /\ Len(output) = 1
        /\ output[1].kind = "error"
        /\ output[1].value =
               IF end_date.date <= start_date.date
               THEN <<"End date must be after the start date.">>
               ELSE <<"Please enter an ETF symbol.">>
        /\ NoResultShown
        /\ data = <<>>
        /\ exception = None

C2_Witness ==
    /\ pc = "done"
    /\ etf_symbol = ""
    /\ start_date.date < end_date.date
    /\ output = <<Show("error", <<"Please enter an ETF symbol.">>)>>

ZeroVolatility == daily_volatility # None /\ SurdIsZero(daily_volatility)

\* C3: a run whose daily returns have zero volatility fails on the Sharpe
\* ratio: it shows no results, and no infinite or NaN Sharpe ratio reaches
\* the display.
C3_ZeroVolatilityFails ==
    ZeroVolatility =>
        /\ ~Shown("sharpe")
        /\ (pc = "done" => NoResultShown)

EventsInWindow ==
    {i \in 1..Len(dividend_history) :
        /\ dividend_history[i].utc >= start_date.utc
        /\ dividend_history[i].utc <= end_date.utc}

RECURSIVE SumAmounts(_)
SumAmounts(I) ==
    IF I = {} THEN Rat(0)
    ELSE LET i == CHOOSE j \in I : TRUE
         IN  FAdd(dividend_history[i].value, SumAmounts(I \ {i}))

DividendStepDone == pc = "done" /\ Shown("dividend_yield")

\* C4: when no dividend event falls in [start, end], the dividend yield is
\* absent and is shown as N/A, also when the history has events outside
\* the window.
C4_NoDividendInWindowIsAbsent ==
    (DividendStepDone /\ EventsInWindow = {}) =>
        /\ dividend_yield = None
        /\ Line("dividend_yield") = NotApplicable

\* The events whose calendar date in New York is in [start, end], both ends
\* included.
EventsInDateWindow ==
    {i \in 1..Len(dividend_history) :
        /\ NewYorkDate(dividend_history[i].utc) >= start_date.date
        /\ NewYorkDate(dividend_history[i].utc) <= end_date.date}

\* C5: when at least one dividend event falls in the window, the dividend
\* yield is the sum of the amounts of exactly the events whose date d, taken
\* in America/New_York, satisfies start <= d <= end, both ends included,
\* over the first adjusted close of the price series.
C5_DividendYieldOverWindow ==
    (DividendStepDone /\ EventsInDateWindow # {}) =>
        /\ dividend_yield =
               FDiv(SumAmounts(EventsInDateWindow), data[1].adj_close)
        /\ Line("dividend_yield") = FormatPercent2(dividend_yield)

BetaStepDone == pc \in {"await_dividends", "done"} /\ Len(fetches) >= 2

\* The benchmark's daily returns are all the same, and there are two or more.
BenchmarkReturnsConstant ==
    /\ Len(market_data) >= 3
    /\ \A i \in 2..(Len(market_data) - 1) :
          FMul(market_data[i].adj_close, market_data[i].adj_close) =
          FMul(market_data[i-1].adj_close, market_data[i+1].adj_close)

\* C6: once the benchmark answer is in, beta is absent exactly when the
\* answer is empty or the variance of the benchmark's returns is 0, and is
\* covariance / variance otherwise; after an empty benchmark answer the run
\* still shows the table, the four other metrics and the chart, with beta
\* shown as N/A.
C6_BetaAbsentOrRatio ==
    BetaStepDone =>
        /\ (market_data # <<>> =>
               (IsZero(market_variance) <=> BenchmarkReturnsConstant))
        /\ (beta = None <=>
               (market_data = <<>> \/ BenchmarkReturnsConstant))
        /\ (beta # None => beta = FDiv(covariance, market_variance))
        /\ (pc = "done" =>
               /\ exception = None
               /\ AllResultsShown
               /\ Line("table") = annual_table /\ annual_table # <<>>
               /\ Line("cagr") = cagr /\ cagr # None
               /\ Line("volatility") = annualized_volatility
               /\ Line("sharpe") = annualized_sharpe_ratio
               /\ Line("chart") = Column(data, "investment_value")
               /\ (beta = None <=> Line("beta") = NotApplicable))

C6_Witness ==
    /\ BetaStepDone
    /\ pc = "done"
    /\ market_data = <<>>
    /\ AllResultsShown
    /\ Line("beta") = NotApplicable

TickerReturnDates == Dates(DropNa(Column(data, "daily_return")))

AlignedMarketReturn == OnDates(MarketReturn(market_data), TickerReturnDates)

\* The ticker and the benchmark have a return on a common date, and the
\* benchmark has a return on a date on which the ticker has none.
TradingDatesDiffer ==
    /\ Dates(AlignedMarketReturn) # {}
    /\ Dates(MarketReturn(market_data)) \ TickerReturnDates # {}

\* C7: when the trading dates of the ticker and of the benchmark differ,
\* both terms of beta are computed over the dates on which both have a
\* return: the covariance and the benchmark's variance use those dates only.
C7_BetaTermsAligned ==
    (BetaStepDone /\ market_data # <<>> /\ TradingDatesDiffer) =>
        /\ covariance =
               Cov(OnDates(Column(data, "daily_return"), Dates(AlignedMarketReturn)),
                   AlignedMarketReturn)
        /\ market_variance = Var(AlignedMarketReturn)

DataYears == {YearOf(data[i].date) : i \in 1..Len(data)}

TableShown == pc = "done" /\ Shown("table")

\* C8: the annual table has one row for each calendar year of the price
\* series, in strictly ascending order of the year, and a row's value is
\* the investment value at the latest date of the series in that year.
C8_AnnualTable ==
    TableShown =>
        /\ Line("table") = annual_table
        /\ Len(annual_table) = Cardinality(DataYears)
        /\ {annual_table[k].Year : k \in 1..Len(annual_table)} = DataYears
        /\ \A k \in 1..Len(annual_table), l \in 1..Len(annual_table) :
              k < l => annual_table[k].Year < annual_table[l].Year
        /\ \A k \in 1..Len(annual_table) :
              \E i \in 1..Len(data) :
                  /\ YearOf(data[i].date) = annual_table[k].Year
                  /\ \A j \in 1..Len(data) :
                        YearOf(data[j].date) = annual_table[k].Year
                            => data[j].date <= data[i].date
                  /\ annual_table[k].InvestmentValue = data[i].investment_value

C8_Witness ==
    /\ TableShown
    /\ Len(data) = 3
    /\ Len(annual_table) = 2
    /\ YearOf(data[2].date) = YearOf(data[3].date)
    /\ data[2].investment_value # data[3].investment_value
    /\ annual_table[2].InvestmentValue = data[3].investment_value

\* C9: for a price series that is not empty, the cumulative return starts
\* at 1 and the investment value at the initial investment, and at every
\* later row the investment value is initial investment * price / first
\* price.
C9_GrowthOfInvestment ==
    data # <<>> =>
        /\ data[1].cumulative_return = Rat(1)
        /\ data[1].investment_value = Rat(initial_investment)
        /\ \A i \in 2..Len(data) :
              data[i].investment_value =
                  FDiv(FMul(Rat(initial_investment), data[i].adj_close),
                       data[1].adj_close)

C9_Witness ==
    /\ Len(data) = 3
    /\ initial_investment = 2500
    /\ data[1].investment_value = Rat(2500)
    /\ data[2].investment_value = Rat(5000)
    /\ data[3].investment_value = Rat(2500)

\* C10: in a run that passed the check of the dates, years is strictly
\* positive, so that 1 / years does not divide by zero.
C10_YearsPositive ==
    years # None => (Sign(years) > 0 /\ exception = None)

====
